---- MODULE Spec2Model ----
(***************************************************************************)
(* Model of the adaptive replication engine of tmp/data-sync/              *)
(* ecosense_sync.py: ProductionClient (rate controller _adaptive_delay and *)
(* batch dispatcher bulk_insert) and EcosenseSync.sync_local_to_production *)
(* with _sync_all_data_paginated (the orchestrator, in its paginated and   *)
(* its windowed mode); of the two writers of measurements into a store,   *)
(* LocalDatabaseSync.bulk_insert_local and EcosenseSync.sync_readings of   *)
(* services/ecosense-sync; and of the runs of that service, which share    *)
(* one AquariusClient.                                                     *)
(*                                                                         *)
(* Durations are integers in milliseconds.  The source computes them as    *)
(* Python floats; a product with 0.9 or 1.5 is rounded down to the         *)
(* millisecond here.  Batch sizes are exact: int(b * 1.1) and int(b * 0.5) *)
(* are floor(11 b / 10) and floor(b / 2) for every b the program reaches.  *)
(***************************************************************************)
EXTENDS Integers, Sequences, FiniteSets, TLC

(***************************************************************************)
(* Program constants                                                       *)
(***************************************************************************)
base_batch_size == 1000
base_delay == 600
max_retries == 5
backoff_multiplier == 2
min_batch == 200
max_batch == 5000
min_delay == 500
max_delay == 60000
other_max_delay == 30000
success_threshold == 3
page_size == 25000
page_pause == 1000

(***************************************************************************)
(* Bounds of the model                                                     *)
(***************************************************************************)
\* non-200 responses the endpoint may give during one run
MaxFaults == 5
\* batches one run may need when every batch succeeds
MaxBatches == 5
\* non-200 responses during a run that needs more than MaxBatches batches
MaxFaultsLongRun == 1
\* outcomes fed to the rate controller after the seed state (SpecRate)
MaxFeeds == 5
\* rate-limit outcomes and growth rounds that build a seed state (SpecRate)
MaxSeedRateLimits == 7
MaxSeedGrowths == 17
\* write calls on a store (SpecStore)
MaxWrites == 2
\* points of one write call (SpecStore)
MaxPoints == 1
\* rows another process inserts during a run (SpecWriter)
MaxInserts == 1
\* requests of one run of the service, and sessions the server opens (SpecService)
MaxRequests == 2
MaxSessions == 3

\* old_scripts/main.py: get_last_sync_time_remote(max_retries=3), its default
\* window of 7 days, and the 7 days and the hour of overlap of
\* sync_sensor_data
lookup_max_retries == 3
fallback_days == 7
initial_days == 7
overlap_hours == 1

VARIABLES
    rate,                  \* RateState: the four adaptive fields of ProductionClient
    trail,                 \* SpecRate: the last outcomes fed, with the state before each
    nfeeds,                \* SpecRate: number of outcomes fed after the seed state
    store_total,           \* rows of ecosense.timeseries_data
    in_window,             \* rows with created_at within the last days_back days
    tied,                  \* the rows of rank page_size - 1 and page_size have one timestamp
    batch_size,            \* the batch_size argument of the run
    dry_run,               \* the dry_run argument of the run
    all_data,              \* days_back is None (the paginated mode)
    data_points,           \* the rows fetched last (ranks in the store's order), or the error met
    log,                   \* the fetches, batch dispatches and sleeps between batches, in order
    pc,                    \* position of the run
    offset, page_num, total_synced,      \* locals of _sync_all_data_paginated
    total_points, effective_batch_size, i, attempt,    \* locals of bulk_insert
    ret,                   \* return value of the bulk_insert call
    result,                \* return value of the run
    batches,               \* per dispatched batch: what happened to it
    last_sleep,            \* the time.sleep call of the last step, if any
    faults,                \* non-200 responses so far
    inserted,              \* rows another process inserted since the run started
    table,                 \* SpecStore: rows of ecosense.timeseries_data, per key
    readings,              \* SpecStore: rows of sensor.SensorReadings, per key
    readings_unique,       \* SpecStore: SensorReadings has a unique (SensorID, Timestamp)
    written,               \* SpecStore: the write calls so far
    session,               \* SpecService: the AquariusClient of sync_service and the server's sessions
    runs,                  \* SpecService: the runs of the service
    legacy                 \* SpecLegacy: one call of EcosenseDataSyncer.sync_sensor_data

vars == <<rate, trail, nfeeds, store_total, in_window, tied, batch_size, dry_run,
          all_data, data_points, log, pc, offset,
          page_num, total_synced, total_points, effective_batch_size, i,
          attempt, ret, result, batches, last_sleep, faults, inserted,
          table, readings, readings_unique, written, session, runs, legacy>>

Min(a, b) == IF a <= b THEN a ELSE b
Max(a, b) == IF a >= b THEN a ELSE b

RECURSIVE Pow(_, _)
Pow(b, e) == IF e = 0 THEN 1 ELSE b * Pow(b, e - 1)

(***************************************************************************)
(* Rate controller                                                         *)
(***************************************************************************)
\* ProductionClient.__init__: the adaptive fields
InitRate ==
    [current_batch_size |-> base_batch_size,
     current_delay      |-> base_delay,
     success_count      |-> 0,
     failure_count      |-> 0]

\* current_delay * 0.9
TimesNineTenths(d) == (d * 9) \div 10
\* int(current_batch_size * 1.1)
IntTimesElevenTenths(b) == (b * 11) \div 10
\* int(current_batch_size * 0.5)
IntTimesHalf(b) == b \div 2
\* current_delay * 1.5
TimesThreeHalves(d) == (d * 3) \div 2

\* OnSuccess with the failure counter left as it was
OnSuccess_keeps_failures(rs) ==
    LET n == rs.success_count + 1 IN
    IF n >= success_threshold
    THEN [current_batch_size |-> Min(max_batch, IntTimesElevenTenths(rs.current_batch_size)),
          current_delay      |-> Max(min_delay, TimesNineTenths(rs.current_delay)),
          success_count      |-> 0,
          failure_count      |-> rs.failure_count]
    ELSE [rs EXCEPT !.success_count = n]

\* OnSuccess that adjusts only after the threshold was passed
OnSuccess_late(rs) ==
    LET n == rs.success_count + 1 IN
    IF n > success_threshold
    THEN [current_batch_size |-> Min(max_batch, IntTimesElevenTenths(rs.current_batch_size)),
          current_delay      |-> Max(min_delay, TimesNineTenths(rs.current_delay)),
          success_count      |-> 0,
          failure_count      |-> 0]
    ELSE [rs EXCEPT !.success_count = n, !.failure_count = 0]

\* OnSuccess without "self.success_count = 0" after the adjustment
OnSuccess_no_reset(rs) ==
    LET n == rs.success_count + 1 IN
    IF n >= success_threshold
    THEN [current_batch_size |-> Min(max_batch, IntTimesElevenTenths(rs.current_batch_size)),
          current_delay      |-> Max(min_delay, TimesNineTenths(rs.current_delay)),
          success_count      |-> n,
          failure_count      |-> 0]
    ELSE [rs EXCEPT !.success_count = n, !.failure_count = 0]

\* the branch "if success and not was_rate_limited"
OnSuccess(rs) ==
    LET n == rs.success_count + 1 IN
    IF n >= success_threshold
    THEN [current_batch_size |-> Min(max_batch, IntTimesElevenTenths(rs.current_batch_size)),
          current_delay      |-> Max(min_delay, TimesNineTenths(rs.current_delay)),
          success_count      |-> 0,
          failure_count      |-> 0]
    ELSE [rs EXCEPT !.success_count = n, !.failure_count = 0]

\* OnRateLimited without the ceiling on the delay
OnRateLimited_no_ceiling(rs) ==
    [current_batch_size |-> Max(min_batch, IntTimesHalf(rs.current_batch_size)),
     current_delay      |-> rs.current_delay * backoff_multiplier,
     success_count      |-> 0,
     failure_count      |-> rs.failure_count + 1]

\* OnRateLimited that shrinks the batch size without the floor
OnRateLimited_no_floor(rs) ==
    [current_batch_size |-> IntTimesHalf(rs.current_batch_size),
     current_delay      |-> Min(max_delay, rs.current_delay * backoff_multiplier),
     success_count      |-> 0,
     failure_count      |-> rs.failure_count + 1]

\* the branch "elif was_rate_limited"
OnRateLimited(rs) ==
    [current_batch_size |-> Max(min_batch, IntTimesHalf(rs.current_batch_size)),
     current_delay      |-> Min(max_delay, rs.current_delay * backoff_multiplier),
     success_count      |-> 0,
     failure_count      |-> rs.failure_count + 1]

\* OnOtherFailure that halves the batch size as the rate-limit branch does
OnOtherFailure_halves(rs) ==
    [rs EXCEPT !.failure_count = rs.failure_count + 1,
               !.success_count = 0,
               !.current_delay = Min(other_max_delay, TimesThreeHalves(rs.current_delay)),
               !.current_batch_size = Max(min_batch, IntTimesHalf(rs.current_batch_size))]

\* the branch "else"
OnOtherFailure(rs) ==
    [rs EXCEPT !.failure_count = rs.failure_count + 1,
               !.success_count = 0,
               !.current_delay = Min(other_max_delay, TimesThreeHalves(rs.current_delay))]

_adaptive_delay(rs, success, was_rate_limited) ==
    IF success /\ ~was_rate_limited THEN OnSuccess(rs)
    ELSE IF was_rate_limited THEN OnRateLimited(rs)
    ELSE OnOtherFailure(rs)

RECURSIVE Repeat(_, _, _, _)
\* n calls of _adaptive_delay with the same outcome, one after the other
Repeat(rs, success, was_rate_limited, n) ==
    IF n = 0 THEN rs
    ELSE IF n = 1 THEN _adaptive_delay(rs, success, was_rate_limited)
    ELSE LET half == Repeat(rs, success, was_rate_limited, n \div 2)
         IN IF half.success_count >= 0
            THEN Repeat(half, success, was_rate_limited, n - (n \div 2))
            ELSE rs

(***************************************************************************)
(* SpecRate: the rate controller alone.  A seed state is the state after a *)
(* run of rate-limit outcomes and a run of growth rounds (in either order) *)
(* from the constructor's state; any outcomes follow.                      *)
(***************************************************************************)
SeedStates ==
    { Repeat(Repeat(InitRate, FALSE, TRUE, a), TRUE, FALSE, success_threshold * b) :
        a \in 0..MaxSeedRateLimits, b \in 0..MaxSeedGrowths }
    \cup
    { Repeat(Repeat(InitRate, TRUE, FALSE, success_threshold * b), FALSE, TRUE, a) :
        a \in 0..MaxSeedRateLimits, b \in 0..MaxSeedGrowths }

(***************************************************************************)
(* The variables of the stores and of the service, and their values while  *)
(* another specification runs                                              *)
(***************************************************************************)
\* keys (series, timestamp) and values of measurements
Keys == {"k1", "k2"}
Values == {1, 2}

\* the runs of the service that may overlap
Runs == {1, 2}

StoreVars == <<table, readings, readings_unique, written>>
ServiceVars == <<session, runs>>
LegacyVars == <<legacy>>

EmptyTable == [k \in Keys |-> <<>>]

IdleStore ==
    /\ table = EmptyTable /\ readings = EmptyTable
    /\ readings_unique = TRUE
    /\ written = <<>>

NoSession == [token |-> 0, valid |-> {}, issued |-> 0]
IdleRun == [pc |-> "idle", token |-> 0, requests |-> <<>>]

IdleService ==
    /\ session = NoSession
    /\ runs = [r \in Runs |-> IdleRun]

\* no call of the legacy syncer
IdleLegacy ==
    legacy = [pc |-> "none", days_back |-> 0, answers |-> <<>>, reported |-> FALSE,
              cause |-> "none", last_sync |-> 0, start |-> 0]

Idle ==
    /\ inserted = 0
    /\ store_total = 0 /\ batch_size = 0 /\ dry_run = FALSE /\ pc = "none"
    /\ in_window = 0 /\ tied = FALSE /\ all_data = TRUE
    /\ data_points = [offset |-> 0, rows |-> 0, first |-> 0, last |-> 0, error |-> "none"]
    /\ log = <<>>
    /\ offset = 0 /\ page_num = 1 /\ total_synced = 0
    /\ total_points = 0 /\ effective_batch_size = 0 /\ i = 0 /\ attempt = 0
    /\ ret = FALSE /\ result = "none" /\ batches = <<>>
    /\ last_sleep = [kind |-> "none", dur |-> 0] /\ faults = 0

RunVars == <<store_total, in_window, tied, batch_size, dry_run, all_data,
             data_points, log, pc, offset, page_num, total_synced,
             total_points, effective_batch_size, i, attempt, ret, result,
             batches, last_sleep, faults, inserted>>

InitRateSpec ==
    /\ rate \in SeedStates
    /\ trail = <<>>
    /\ nfeeds = 0
    /\ Idle
    /\ IdleStore /\ IdleService /\ IdleLegacy

\* one call _adaptive_delay(success, was_rate_limited)
Feed(success, was_rate_limited) ==
    /\ nfeeds < MaxFeeds
    /\ rate' = _adaptive_delay(rate, success, was_rate_limited)
    /\ trail' = LET t == Append(trail, [before |-> rate, success |-> success,
                                        was_rate_limited |-> was_rate_limited])
                IN IF Len(t) > success_threshold THEN Tail(t) ELSE t
    /\ nfeeds' = nfeeds + 1
    /\ UNCHANGED <<RunVars, StoreVars, ServiceVars, LegacyVars>>

FeedSuccess == Feed(TRUE, FALSE)
FeedRateLimited == \E s \in BOOLEAN : Feed(s, TRUE)
FeedOtherFailure == Feed(FALSE, FALSE)

NextRate == FeedSuccess \/ FeedRateLimited \/ FeedOtherFailure

SpecRate == InitRateSpec /\ [][NextRate]_vars

(***************************************************************************)
(* Claims about the rate controller (checked under SpecRate)               *)
(***************************************************************************)
\* the last outcome fed, with the state it was applied to
LastFed == trail[Len(trail)]

\* C1: after any sequence of outcomes, current_batch_size is within
\* [min_batch, max_batch] = [200, 5000] and current_delay is within
\* [min_delay, max_delay] = [0.5 s, 60 s].
C1_RateBounds ==
    /\ rate.current_batch_size >= 200 /\ rate.current_batch_size <= 5000
    /\ rate.current_delay >= 500 /\ rate.current_delay <= 60000

\* both clamps of the rate-limit branch are active after an outcome was fed
C1_Witness ==
    /\ nfeeds > 0
    /\ LastFed.was_rate_limited
    /\ LastFed.before.current_delay * 2 > 60000
    /\ LastFed.before.current_batch_size < 400
    /\ rate.current_delay = 60000 /\ rate.current_batch_size = 200

\* C4: an outcome with was_rate_limited = true adds 1 to the failure counter,
\* zeroes the success counter, doubles the delay up to max_delay and halves
\* the batch size (rounded down) down to min_batch.
C4_RateLimitedTransition ==
    (nfeeds > 0 /\ LastFed.was_rate_limited) =>
        LET b == LastFed.before
            half == CHOOSE h \in 0..b.current_batch_size :
                        2 * h <= b.current_batch_size /\ b.current_batch_size < 2 * h + 2
        IN /\ rate.failure_count = b.failure_count + 1
           /\ rate.success_count = 0
           /\ rate.current_delay =
                  (IF 2 * b.current_delay > 60000 THEN 60000 ELSE 2 * b.current_delay)
           /\ rate.current_batch_size = (IF half < 200 THEN 200 ELSE half)

\* a rate-limit outcome applied after successes, with neither clamp active
C4_Witness ==
    /\ nfeeds > 0 /\ LastFed.was_rate_limited
    /\ LastFed.before.success_count = 2
    /\ rate.current_batch_size > 200 /\ rate.current_delay < 60000
    /\ rate.current_batch_size * 2 + 1 = LastFed.before.current_batch_size

\* C5: a Success outcome without rate-limit signal zeroes the failure counter
\* and adds 1 to the success counter; exactly when the counter reaches 3 the
\* delay becomes max(min_delay, delay * 0.9), the batch size becomes
\* min(max_batch, floor(batch_size * 1.1)) and the counter returns to 0.
C5_SuccessTransition ==
    (nfeeds > 0 /\ LastFed.success /\ ~LastFed.was_rate_limited) =>
        LET b == LastFed.before
            grown == (11 * b.current_batch_size) \div 10
            eased == (9 * b.current_delay) \div 10
        IN /\ rate.failure_count = 0
           /\ IF b.success_count + 1 = 3
              THEN /\ rate.success_count = 0
                   /\ rate.current_delay = (IF eased < 500 THEN 500 ELSE eased)
                   /\ rate.current_batch_size = (IF grown > 5000 THEN 5000 ELSE grown)
              ELSE /\ rate.success_count = b.success_count + 1
                   /\ rate.current_delay = b.current_delay
                   /\ rate.current_batch_size = b.current_batch_size

\* the third success in a row, after failures, adjusts both fields
C5_Witness ==
    /\ Len(trail) = 3
    /\ trail[1].before.failure_count > 0
    /\ \A k \in 1..3 : trail[k].success /\ ~trail[k].was_rate_limited
    /\ rate.success_count = 0 /\ rate.failure_count = 0
    /\ rate.current_batch_size > LastFed.before.current_batch_size
    /\ rate.current_delay < LastFed.before.current_delay

\* C7: three consecutive Success outcomes leave the batch size strictly
\* larger unless it was max_batch, and the delay strictly smaller unless it
\* was min_delay.
C7_ThreeSuccesses ==
    (Len(trail) = 3 /\ \A k \in 1..3 : trail[k].success /\ ~trail[k].was_rate_limited) =>
        LET b == trail[1].before
        IN /\ (b.current_batch_size = 5000 \/ rate.current_batch_size > b.current_batch_size)
           /\ (b.current_delay = 500 \/ rate.current_delay < b.current_delay)

\* three successes that start in the middle of a round, away from both limits
C7_Witness ==
    /\ Len(trail) = 3
    /\ \A k \in 1..3 : trail[k].success /\ ~trail[k].was_rate_limited
    /\ trail[1].before.success_count = 2
    /\ trail[1].before.current_batch_size < 5000
    /\ trail[1].before.current_delay > 500
    /\ rate.current_batch_size > trail[1].before.current_batch_size
    /\ rate.current_delay < trail[1].before.current_delay

(***************************************************************************)
(* Spec: one run of sync_local_to_production(batch_size, dry_run,          *)
(* days_back) on a freshly constructed ProductionClient: paginated when    *)
(* days_back is None, windowed otherwise.  The endpoint answers every      *)
(* network write with any of: 200, 429, another status, a timeout, another *)
(* exception.                                                              *)
(*                                                                         *)
(* A row is named by its rank in the order "timestamp DESC" of the store.  *)
(* The table's key is (timeseries_id, timestamp), so rows of different     *)
(* series may share a timestamp; the order of such rows in the result of   *)
(* a query is not fixed by "ORDER BY timestamp DESC".                      *)
(***************************************************************************)
\* the page query without its LIMIT
PageRows_unlimited(total, off) == Max(0, total - off)

\* rows returned by "ORDER BY timestamp DESC LIMIT page_size OFFSET off"
PageRows(total, off) == Min(page_size, Max(0, total - off))

\* number of steps of range(0, n, step) for step > 0
CeilDiv(n, step) == (n + step - 1) \div step

RECURSIVE NominalBatches(_, _, _)
\* batches of a run in which every write succeeds and the batch size stays e
NominalBatches(total, off, e) ==
    IF PageRows(total, off) = 0 THEN 0
    ELSE CeilDiv(PageRows(total, off), e) + NominalBatches(total, off + page_size, e)

\* row counts of the staging table, and --batch-size values (500 is the
\* command line's default, 1000 the default of sync_local_to_production; 0 makes
\* bulk_insert fall back to the adaptive size, with -1 range(0, n, -1) is empty)
StoreTotals == {0, 2000, 3500, 25000, 60000}
BatchSizeArgs == {-1, 0, 500, 1000, 12500, 25000}
\* row counts of the window "created_at >= NOW() - INTERVAL 'days_back days'"
WindowTotals == {0, 2000, 12000}

\* "batch_size or self.current_batch_size"
EffectiveBatchSize(arg, rs) == IF arg # 0 THEN arg ELSE rs.current_batch_size

\* get_unsent_data(batch_size=limit, days_back=...): "ORDER BY timestamp DESC
\* LIMIT limit" over the window; a failing query yields the empty list
WindowRows(n, limit) == IF limit < 0 THEN 0 ELSE Min(n, limit)

\* the limit sync_local_to_production asks for
WindowLimit == batch_size * 10

NoSleep == [kind |-> "none", dur |-> 0]
Sleep(kind, dur) == [kind |-> kind, dur |-> dur]

\* batches the run needs when every write succeeds
NominalBatchesOfRun ==
    LET e == EffectiveBatchSize(batch_size, InitRate) IN
    IF e < 0 THEN 0      \* range(0, n, e) is empty
    ELSE IF all_data THEN NominalBatches(store_total, 0, e)
    ELSE CeilDiv(WindowRows(in_window, WindowLimit), e)

\* non-200 responses the endpoint may give during this run: fewer in the runs
\* with many batches and in those over tied rows
FaultBudget ==
    IF NominalBatchesOfRun <= MaxBatches /\ ~tied THEN MaxFaults ELSE MaxFaultsLongRun

Init ==
    /\ rate = InitRate
    /\ trail = <<>>
    /\ nfeeds = 0
    /\ all_data \in BOOLEAN
    /\ store_total \in StoreTotals
    /\ in_window \in WindowTotals
    /\ batch_size \in BatchSizeArgs
    /\ tied \in BOOLEAN
    /\ IF all_data
       THEN /\ in_window = 0
            /\ NominalBatchesOfRun <= MaxBatches
            /\ tied => store_total > page_size
       ELSE /\ store_total = 60000
            /\ ~tied
    /\ dry_run \in BOOLEAN
    /\ data_points = [offset |-> 0, rows |-> 0, first |-> 0, last |-> 0, error |-> "none"]
    /\ log = <<>>
    /\ pc = "fetch"
    /\ offset = 0 /\ page_num = 1 /\ total_synced = 0
    /\ total_points = 0 /\ effective_batch_size = 0 /\ i = 0 /\ attempt = 0
    /\ ret = FALSE
    /\ result = "running"
    /\ batches = <<>>
    /\ last_sleep = NoSleep
    /\ faults = 0
    /\ inserted = 0
    /\ IdleStore /\ IdleService /\ IdleLegacy

\* the variables no step of the run changes: those of the rate-controller
\* specification, of the other process, of the stores and of the service
RateVarsUnused == <<trail, nfeeds, inserted, StoreVars, ServiceVars, LegacyVars>>
InputVars == <<store_total, in_window, tied, batch_size, dry_run, all_data>>
PageVars == <<offset, page_num, total_synced>>

\* the rows "ORDER BY timestamp DESC" may put at position pos: a row is named
\* by the rank it had when the run started, the rows stored since then are
\* newer and come first (they have the ranks below 0)
RankAt(pos) ==
    IF tied /\ pos - inserted \in {page_size - 1, page_size}
    THEN {page_size - 1, page_size}
    ELSE {pos - inserted}

\* the ranks a page query may return first and last: the rows in between are
\* those of rank off + 1 .. off + rows - 2; of two rows with one timestamp
\* either may come first
FirstRanks(off) == RankAt(off)
LastRanks(off, rows) == RankAt(off + rows - 1)

FetchEvent(dp) == [e |-> "fetch", offset |-> dp.offset, rows |-> dp.rows,
                   first |-> dp.first, last |-> dp.last]

\* production.bulk_insert(data_points, batch_size=batch_size) up to its first
\* network write, for a non-empty list of rows
CallBulkInsert(rows) ==
    /\ total_points' = rows
    /\ effective_batch_size' = EffectiveBatchSize(batch_size, rate)
    /\ i' = 0 /\ attempt' = 0
    /\ IF EffectiveBatchSize(batch_size, rate) < 0
       THEN pc' = "returned" /\ ret' = TRUE     \* range(0, n, step) is empty
       ELSE pc' = "post" /\ ret' = FALSE

\* DryRunReturn that fetches the first page before it returns
DryRunReturn_fetches ==
    /\ all_data
    /\ pc = "fetch" /\ offset = 0 /\ dry_run
    /\ data_points' = [offset |-> 0, rows |-> PageRows(store_total, 0),
                       first |-> 0, last |-> Max(0, PageRows(store_total, 0) - 1), error |-> "none"]
    /\ log' = Append(log, FetchEvent(data_points'))
    /\ pc' = "done" /\ result' = "success"
    /\ last_sleep' = NoSleep
    /\ UNCHANGED <<rate, RateVarsUnused, InputVars, PageVars, total_points,
                   effective_batch_size, i, attempt, ret, batches, faults>>

\* _sync_all_data_paginated, first iteration with dry_run: count and return True
DryRunReturn ==
    /\ all_data
    /\ pc = "fetch" /\ offset = 0 /\ dry_run
    /\ pc' = "done" /\ result' = "success"
    /\ last_sleep' = NoSleep
    /\ UNCHANGED <<rate, RateVarsUnused, InputVars, PageVars, total_points,
                   effective_batch_size, i, attempt, ret, batches, faults,
                   data_points, log>>

\* sync_local_to_production: test_connection() is False, return False
ConnectionFails ==
    /\ pc = "fetch" /\ offset = 0 /\ log = <<>>
    /\ data_points' = [data_points EXCEPT !.error = "connection"]
    /\ pc' = "done" /\ result' = "failure"
    /\ last_sleep' = NoSleep
    /\ UNCHANGED <<rate, RateVarsUnused, InputVars, PageVars, total_points,
                   effective_batch_size, i, attempt, ret, batches, faults, log>>

\* _sync_all_data_paginated: the connection to the staging database, the
\* count or the page query raises; the except clause returns False
FetchFails ==
    /\ all_data
    /\ pc = "fetch"
    /\ data_points' = [offset |-> offset, rows |-> 0, first |-> offset,
                       last |-> offset, error |-> "source"]
    /\ pc' = "done" /\ result' = "failure"
    /\ last_sleep' = NoSleep
    /\ UNCHANGED <<rate, RateVarsUnused, InputVars, PageVars, total_points,
                   effective_batch_size, i, attempt, ret, batches, faults, log>>

\* sync_local_to_production with days_back: the connection or the query of
\* get_unsent_data raises; get_unsent_data returns the empty list and the
\* run returns True on "No data to sync"
WindowFetchFails ==
    /\ ~all_data
    /\ pc = "fetch"
    /\ data_points' = [offset |-> 0, rows |-> 0, first |-> 0, last |-> 0,
                       error |-> "source"]
    /\ pc' = "done" /\ result' = "success"
    /\ last_sleep' = NoSleep
    /\ UNCHANGED <<rate, RateVarsUnused, InputVars, PageVars, total_points,
                   effective_batch_size, i, attempt, ret, batches, faults, log>>

\* _sync_all_data_paginated: the page is empty, leave the loop and return True
FetchEmpty ==
    /\ all_data
    /\ pc = "fetch" /\ ~(offset = 0 /\ dry_run)
    /\ PageRows(store_total + inserted, offset) = 0
    /\ data_points' = [offset |-> offset, rows |-> 0, first |-> offset, last |-> offset, error |-> "none"]
    /\ log' = Append(log, FetchEvent(data_points'))
    /\ pc' = "done" /\ result' = "success"
    /\ last_sleep' = NoSleep
    /\ UNCHANGED <<rate, RateVarsUnused, InputVars, PageVars, total_points,
                   effective_batch_size, i, attempt, ret, batches, faults>>

\* _sync_all_data_paginated: fetch a non-empty page and call
\* production.bulk_insert(data_points, batch_size=batch_size) up to its first write
FetchPage ==
    /\ all_data
    /\ pc = "fetch" /\ ~(offset = 0 /\ dry_run)
    /\ PageRows(store_total + inserted, offset) > 0
    /\ \E f \in FirstRanks(offset),
          l \in LastRanks(offset, PageRows(store_total + inserted, offset)) :
          data_points' = [offset |-> offset,
                          rows |-> PageRows(store_total + inserted, offset),
                          first |-> f, last |-> l, error |-> "none"]
    /\ log' = Append(log, FetchEvent(data_points'))
    /\ CallBulkInsert(PageRows(store_total + inserted, offset))
    /\ last_sleep' = NoSleep
    /\ UNCHANGED <<rate, RateVarsUnused, InputVars, PageVars, result, batches, faults>>

\* sync_local_to_production with days_back: get_unsent_data returned no row
WindowEmpty ==
    /\ ~all_data
    /\ pc = "fetch"
    /\ WindowRows(in_window, WindowLimit) = 0
    /\ data_points' = [offset |-> 0, rows |-> 0, first |-> 0, last |-> 0,
                       error |-> IF WindowLimit < 0 THEN "source" ELSE "none"]
    /\ log' = Append(log, FetchEvent(data_points'))
    /\ pc' = "done" /\ result' = "success"
    /\ last_sleep' = NoSleep
    /\ UNCHANGED <<rate, RateVarsUnused, InputVars, PageVars, total_points,
                   effective_batch_size, i, attempt, ret, batches, faults>>

\* WindowDryRun without the test of dry_run: the rows are sent
WindowDryRun_sends ==
    /\ ~all_data
    /\ pc = "fetch" /\ dry_run
    /\ WindowRows(in_window, WindowLimit) > 0
    /\ data_points' = [offset |-> 0, rows |-> WindowRows(in_window, WindowLimit),
                       first |-> 0, last |-> WindowRows(in_window, WindowLimit) - 1, error |-> "none"]
    /\ log' = Append(log, FetchEvent(data_points'))
    /\ CallBulkInsert(WindowRows(in_window, WindowLimit))
    /\ last_sleep' = NoSleep
    /\ UNCHANGED <<rate, RateVarsUnused, InputVars, PageVars, result, batches, faults>>

\* sync_local_to_production with days_back and dry_run: fetch and return True
WindowDryRun ==
    /\ ~all_data
    /\ pc = "fetch" /\ dry_run
    /\ WindowRows(in_window, WindowLimit) > 0
    /\ data_points' = [offset |-> 0, rows |-> WindowRows(in_window, WindowLimit),
                       first |-> 0, last |-> WindowRows(in_window, WindowLimit) - 1, error |-> "none"]
    /\ log' = Append(log, FetchEvent(data_points'))
    /\ pc' = "done" /\ result' = "success"
    /\ last_sleep' = NoSleep
    /\ UNCHANGED <<rate, RateVarsUnused, InputVars, PageVars, total_points,
                   effective_batch_size, i, attempt, ret, batches, faults>>

\* sync_local_to_production with days_back: fetch the rows and call
\* production.bulk_insert(data_points, batch_size=batch_size) up to its first write
WindowFetch ==
    /\ ~all_data
    /\ pc = "fetch" /\ ~dry_run
    /\ WindowRows(in_window, WindowLimit) > 0
    /\ data_points' = [offset |-> 0, rows |-> WindowRows(in_window, WindowLimit),
                       first |-> 0, last |-> WindowRows(in_window, WindowLimit) - 1, error |-> "none"]
    /\ log' = Append(log, FetchEvent(data_points'))
    /\ CallBulkInsert(WindowRows(in_window, WindowLimit))
    /\ last_sleep' = NoSleep
    /\ UNCHANGED <<rate, RateVarsUnused, InputVars, PageVars, result, batches, faults>>

\* the slice taken at full length even past the end of data_points
BatchLen_full == effective_batch_size

\* data_points[i : i + effective_batch_size]
BatchLen == Min(effective_batch_size, total_points - i)

\* the record of the batch a write belongs to: opened by the write of attempt 0
CurBatch ==
    IF attempt = 0
    THEN [start |-> offset + i, size |-> BatchLen, writes |-> 0, feeds |-> 0,
          http |-> 0, acked |-> FALSE, concluded |-> FALSE, only429 |-> TRUE,
          rs0 |-> rate, before |-> rate, last |-> "none",
          page |-> page_num, i |-> i]
    ELSE batches[Len(batches)]

\* note one network write answered with status in the batch's record
Record(b, status) ==
    LET w == [b EXCEPT !.writes = @ + 1, !.before = rate, !.last = status]
    IN IF attempt = 0 THEN Append(batches, w)
       ELSE [batches EXCEPT ![Len(batches)] = w]

\* the log after a network write: the first write of a batch is its dispatch,
\* and a pacing sleep may follow the write
LogWrite(status) ==
    log' = log
           \o (IF attempt = 0
               THEN <<[e |-> "dispatch", start |-> offset + i, size |-> BatchLen]>>
               ELSE <<>>)
           \o (IF last_sleep'.kind = "pacing"
               THEN <<[e |-> "sleep", kind |-> "pacing", dur |-> last_sleep'.dur]>>
               ELSE <<>>)

\* SoftBackoff without the growth by attempt
SoftBackoff_flat(d, k) == d

\* current_delay * (1.5 ** attempt)
SoftBackoff(d, k) == (d * Pow(3, k)) \div Pow(2, k)
\* RateLimitBackoff with a product in place of the power
RateLimitBackoff_product(d, k) == d * backoff_multiplier * k

\* current_delay * (backoff_multiplier ** attempt)
RateLimitBackoff(d, k) == d * Pow(backoff_multiplier, k)

\* Continue without the test of batch_success after the loop: a batch whose
\* attempts are used up is passed over
Continue_unchecked ==
    IF attempt + 1 < max_retries
    THEN attempt' = attempt + 1 /\ pc' = "post" /\ ret' = ret /\ i' = i
    ELSE IF i + effective_batch_size < total_points
         THEN attempt' = 0 /\ pc' = "post" /\ ret' = ret /\ i' = i + effective_batch_size
         ELSE attempt' = attempt + 1 /\ pc' = "returned" /\ ret' = TRUE /\ i' = i

\* Continue in a retry loop of range(max_retries + 1)
Continue_one_more ==
    /\ attempt' = attempt + 1
    /\ IF attempt + 1 < max_retries + 1
       THEN pc' = "post" /\ ret' = ret
       ELSE pc' = "returned" /\ ret' = FALSE
    /\ i' = i

\* "continue" of the retry loop; when the attempts are used up the loop ends
\* with batch_success false and bulk_insert returns False
Continue ==
    /\ attempt' = attempt + 1
    /\ IF attempt + 1 < max_retries
       THEN pc' = "post" /\ ret' = ret
       ELSE pc' = "returned" /\ ret' = FALSE
    /\ i' = i

ReturnFalse ==
    /\ pc' = "returned" /\ ret' = FALSE
    /\ attempt' = attempt /\ i' = i

\* Post200 without the break: the retry loop goes on after a 200
Post200_no_break ==
    /\ pc = "post"
    /\ rate' = _adaptive_delay(rate, TRUE, FALSE)
    /\ batches' = Record([CurBatch EXCEPT !.feeds = @ + 1, !.http = @ + 1,
                                          !.acked = TRUE, !.concluded = TRUE,
                                          !.only429 = FALSE], "200")
    /\ last_sleep' = NoSleep
    /\ IF attempt + 1 < max_retries
       THEN attempt' = attempt + 1 /\ i' = i /\ pc' = "post" /\ ret' = ret
       ELSE IF i + effective_batch_size < total_points
            THEN i' = i + effective_batch_size /\ attempt' = 0 /\ pc' = "post" /\ ret' = ret
            ELSE pc' = "returned" /\ ret' = TRUE /\ i' = i /\ attempt' = attempt
    /\ LogWrite("200")
    /\ UNCHANGED <<data_points, RateVarsUnused, InputVars, PageVars, total_points,
                   effective_batch_size, result, faults>>

\* Post200 that passes over the slice after the acknowledged one
Post200_skips ==
    /\ pc = "post"
    /\ rate' = _adaptive_delay(rate, TRUE, FALSE)
    /\ batches' = Record([CurBatch EXCEPT !.feeds = @ + 1, !.http = @ + 1,
                                          !.acked = TRUE, !.concluded = TRUE,
                                          !.only429 = FALSE], "200")
    /\ IF i + 2 * effective_batch_size < total_points
       THEN /\ last_sleep' = Sleep("pacing", rate'.current_delay)
            /\ i' = i + 2 * effective_batch_size /\ attempt' = 0
            /\ pc' = "post" /\ ret' = ret
       ELSE /\ last_sleep' = NoSleep
            /\ pc' = "returned" /\ ret' = TRUE
            /\ i' = i /\ attempt' = attempt
    /\ LogWrite("200")
    /\ UNCHANGED <<data_points, RateVarsUnused, InputVars, PageVars, total_points,
                   effective_batch_size, result, faults>>

\* response.status_code == 200
Post200 ==
    /\ pc = "post"
    /\ rate' = _adaptive_delay(rate, TRUE, FALSE)
    /\ batches' = Record([CurBatch EXCEPT !.feeds = @ + 1, !.http = @ + 1,
                                          !.acked = TRUE, !.concluded = TRUE,
                                          !.only429 = FALSE], "200")
    /\ IF i + effective_batch_size < total_points
       THEN /\ last_sleep' = Sleep("pacing", rate'.current_delay)
            /\ i' = i + effective_batch_size /\ attempt' = 0
            /\ pc' = "post" /\ ret' = ret
       ELSE /\ last_sleep' = NoSleep
            /\ pc' = "returned" /\ ret' = TRUE
            /\ i' = i /\ attempt' = attempt
    /\ LogWrite("200")
    /\ UNCHANGED <<data_points, RateVarsUnused, InputVars, PageVars, total_points,
                   effective_batch_size, result, faults>>

\* Post429 that does not report the 429 to the rate controller
Post429_unfed ==
    /\ pc = "post" /\ faults < FaultBudget
    /\ faults' = faults + 1
    /\ rate' = rate
    /\ last_sleep' = Sleep("rate_limit", RateLimitBackoff(rate.current_delay, attempt))
    /\ batches' = Record([CurBatch EXCEPT !.http = @ + 1,
                                          !.concluded = (attempt + 1 = max_retries)],
                          "429")
    /\ Continue
    /\ LogWrite("429")
    /\ UNCHANGED <<data_points, RateVarsUnused, InputVars, PageVars, total_points,
                   effective_batch_size, result>>

\* response.status_code == 429
Post429 ==
    /\ pc = "post" /\ faults < FaultBudget
    /\ faults' = faults + 1
    /\ rate' = _adaptive_delay(rate, FALSE, TRUE)
    /\ last_sleep' = Sleep("rate_limit", RateLimitBackoff(rate.current_delay, attempt))
    /\ batches' = Record([CurBatch EXCEPT !.feeds = @ + 1, !.http = @ + 1,
                                          !.concluded = (attempt + 1 = max_retries)],
                          "429")
    /\ Continue
    /\ LogWrite("429")
    /\ UNCHANGED <<data_points, RateVarsUnused, InputVars, PageVars, total_points,
                   effective_batch_size, result>>

\* any other status code
PostOtherStatus ==
    /\ pc = "post" /\ faults < FaultBudget
    /\ faults' = faults + 1
    /\ rate' = _adaptive_delay(rate, FALSE, FALSE)
    /\ batches' = Record([CurBatch EXCEPT !.feeds = @ + 1, !.http = @ + 1,
                                          !.only429 = FALSE,
                                          !.concluded = (attempt + 1 = max_retries)],
                          "other")
    /\ IF attempt < max_retries - 1
       THEN /\ last_sleep' = Sleep("soft", SoftBackoff(rate'.current_delay, attempt))
            /\ Continue
       ELSE /\ last_sleep' = NoSleep
            /\ ReturnFalse
    /\ LogWrite("other")
    /\ UNCHANGED <<data_points, RateVarsUnused, InputVars, PageVars, total_points,
                   effective_batch_size, result>>

\* PostTimeout that reports the failure to the rate controller
PostTimeout_feeds ==
    /\ pc = "post" /\ faults < FaultBudget
    /\ faults' = faults + 1
    /\ rate' = _adaptive_delay(rate, FALSE, FALSE)
    /\ batches' = Record([CurBatch EXCEPT !.feeds = @ + 1, !.only429 = FALSE,
                                          !.concluded = (attempt + 1 = max_retries)],
                          "timeout")
    /\ IF attempt < max_retries - 1
       THEN /\ last_sleep' = Sleep("soft", SoftBackoff(rate'.current_delay, attempt))
            /\ Continue
       ELSE /\ last_sleep' = NoSleep
            /\ ReturnFalse
    /\ LogWrite("timeout")
    /\ UNCHANGED <<data_points, RateVarsUnused, InputVars, PageVars, total_points,
                   effective_batch_size, result>>

\* except requests.exceptions.Timeout
PostTimeout ==
    /\ pc = "post" /\ faults < FaultBudget
    /\ faults' = faults + 1
    /\ batches' = Record([CurBatch EXCEPT !.only429 = FALSE,
                                          !.concluded = (attempt + 1 = max_retries)],
                          "timeout")
    /\ IF attempt < max_retries - 1
       THEN /\ last_sleep' = Sleep("soft", SoftBackoff(rate.current_delay, attempt))
            /\ Continue
       ELSE /\ last_sleep' = NoSleep
            /\ ReturnFalse
    /\ LogWrite("timeout")
    /\ UNCHANGED <<data_points, rate, RateVarsUnused, InputVars, PageVars, total_points,
                   effective_batch_size, result>>

\* except Exception (inside the retry loop)
PostException ==
    /\ pc = "post" /\ faults < FaultBudget
    /\ faults' = faults + 1
    /\ batches' = Record([CurBatch EXCEPT !.only429 = FALSE,
                                          !.concluded = (attempt + 1 = max_retries)],
                          "error")
    /\ IF attempt < max_retries - 1
       THEN /\ last_sleep' = Sleep("flat", rate.current_delay)
            /\ Continue
       ELSE /\ last_sleep' = NoSleep
            /\ ReturnFalse
    /\ LogWrite("error")
    /\ UNCHANGED <<data_points, rate, RateVarsUnused, InputVars, PageVars, total_points,
                   effective_batch_size, result>>

\* PageSent with a ProductionClient made anew for the next page
PageSent_resets ==
    /\ all_data
    /\ pc = "returned" /\ ret
    /\ total_synced' = total_synced + total_points
    /\ offset' = offset + page_size
    /\ page_num' = page_num + 1
    /\ last_sleep' = Sleep("page", page_pause)
    /\ log' = Append(log, [e |-> "sleep", kind |-> "page", dur |-> page_pause])
    /\ pc' = "fetch"
    /\ rate' = InitRate
    /\ UNCHANGED <<data_points, RateVarsUnused, InputVars, total_points,
                   effective_batch_size, i, attempt, ret, result, batches, faults>>

\* bulk_insert returned True: count the page, move the offset, pause
PageSent ==
    /\ all_data
    /\ pc = "returned" /\ ret
    /\ total_synced' = total_synced + total_points
    /\ offset' = offset + page_size
    /\ page_num' = page_num + 1
    /\ last_sleep' = Sleep("page", page_pause)
    /\ log' = Append(log, [e |-> "sleep", kind |-> "page", dur |-> page_pause])
    /\ pc' = "fetch"
    /\ UNCHANGED <<data_points, rate, RateVarsUnused, InputVars, total_points,
                   effective_batch_size, i, attempt, ret, result, batches, faults>>

\* PageFailed that passes over the failing page and goes on with the next one
PageFailed_skips ==
    /\ all_data
    /\ pc = "returned" /\ ~ret
    /\ offset' = offset + page_size
    /\ page_num' = page_num + 1
    /\ pc' = "fetch"
    /\ last_sleep' = NoSleep
    /\ UNCHANGED <<data_points, log, rate, RateVarsUnused, InputVars, total_synced,
                   total_points, effective_batch_size, i, attempt, ret, result,
                   batches, faults>>

\* bulk_insert returned False: the run returns False
PageFailed ==
    /\ all_data
    /\ pc = "returned" /\ ~ret
    /\ pc' = "done" /\ result' = "failure"
    /\ last_sleep' = NoSleep
    /\ UNCHANGED <<data_points, log, rate, RateVarsUnused, InputVars, PageVars, total_points,
                   effective_batch_size, i, attempt, ret, batches, faults>>

\* sync_local_to_production with days_back: bulk_insert returned True
WindowSent ==
    /\ ~all_data
    /\ pc = "returned" /\ ret
    /\ pc' = "done" /\ result' = "success"
    /\ last_sleep' = NoSleep
    /\ UNCHANGED <<data_points, log, rate, RateVarsUnused, InputVars, PageVars,
                   total_points, effective_batch_size, i, attempt, ret, batches,
                   faults>>

\* sync_local_to_production with days_back: bulk_insert returned False
WindowFailed ==
    /\ ~all_data
    /\ pc = "returned" /\ ~ret
    /\ pc' = "done" /\ result' = "failure"
    /\ last_sleep' = NoSleep
    /\ UNCHANGED <<data_points, log, rate, RateVarsUnused, InputVars, PageVars,
                   total_points, effective_batch_size, i, attempt, ret, batches,
                   faults>>

Next ==
    \/ DryRunReturn
    \/ FetchEmpty
    \/ FetchPage
    \/ Post200
    \/ Post429
    \/ PostOtherStatus
    \/ PostTimeout
    \/ PostException
    \/ PageSent
    \/ PageFailed
    \/ WindowEmpty
    \/ WindowDryRun
    \/ WindowFetch
    \/ WindowSent
    \/ WindowFailed
    \/ ConnectionFails
    \/ FetchFails
    \/ WindowFetchFails

Spec == Init /\ [][Next]_vars

(***************************************************************************)
(* Claims about the dispatcher (checked under Spec)                        *)
(***************************************************************************)
Dispatched == 1..Len(batches)
LastBatch == batches[Len(batches)]

\* C2 as stated: for every batch, the rate controller is updated exactly once,
\* whatever the number of attempts.
C2_OncePerBatch ==
    \A k \in Dispatched : batches[k].concluded => batches[k].feeds = 1

\* C2 amended: for every batch, _adaptive_delay is called once per attempt that
\* was answered with an HTTP status and never for an attempt that ended in a
\* timeout or another exception: between 0 and max_retries calls per batch, and
\* a batch without an answered attempt leaves the RateState as it found it.
C2_OncePerAnsweredAttempt ==
    \A k \in Dispatched :
        LET b == batches[k] IN
        /\ b.feeds = b.http
        /\ b.http <= b.writes /\ b.writes <= 5
        /\ (b.acked => b.feeds >= 1)
        /\ (k = Len(batches) /\ b.http = 0) => rate = b.rs0

\* a batch acknowledged on its third attempt after a timeout and a 429: fed twice
C2_Witness ==
    \E k \in Dispatched :
        /\ batches[k].acked /\ batches[k].writes = 3 /\ batches[k].feeds = 2
        /\ batches[k].rs0.current_delay * 2 = rate.current_delay

\* C3: every batch after the first of a run has at most as many points as the
\* current_batch_size the rate controller held when the batch was dispatched.
C3_SizedByController ==
    \A k \in Dispatched :
        k > 1 => batches[k].size <= batches[k].rs0.current_batch_size

\* C6: every attempt that fails with a non-429 status, a timeout or another
\* exception is recorded by the rate controller: failure counter + 1, success
\* counter 0, delay * 1.5 capped at 30 s.
C6_FailureRecorded ==
    (Len(batches) > 0 /\ LastBatch.last \in {"other", "timeout", "error"}) =>
        /\ rate.failure_count = LastBatch.before.failure_count + 1
        /\ rate.success_count = 0
        /\ rate.current_delay =
              Min(30000, (3 * LastBatch.before.current_delay) \div 2)

\* C8: no batch gets more than max_retries (5) network writes, and a batch is
\* not written again once a write was answered 200.
C8_BoundedRetry ==
    \A k \in Dispatched :
        /\ batches[k].writes >= 1 /\ batches[k].writes <= 5
        /\ batches[k].acked => batches[k].last = "200"
        /\ \A j \in Dispatched : j < k => batches[j].start < batches[k].start

\* a batch acknowledged by its fifth write, followed by another batch
C8_Witness ==
    \E k \in Dispatched :
        /\ batches[k].writes = 5 /\ batches[k].acked
        /\ k < Len(batches)

\* C9: when all max_retries attempts of a batch are answered 429, bulk_insert
\* returns False and no later batch is dispatched.
C9_RateLimitExhaustion ==
    \A k \in Dispatched :
        (batches[k].writes = 5 /\ batches[k].only429) =>
            /\ k = Len(batches)
            /\ pc \in {"returned", "done"}
            /\ ~ret
            /\ result # "success"

\* five 429 answers for a batch that is not the last of its page
C9_Witness ==
    /\ Len(batches) > 0
    /\ LastBatch.writes = 5 /\ LastBatch.only429
    /\ i + effective_batch_size < total_points
    /\ pc = "done" /\ result = "failure"

RetryingAfter(status) ==
    /\ pc = "post" /\ attempt > 0
    /\ Len(batches) > 0
    /\ LastBatch.writes = attempt /\ LastBatch.last = status

\* a batch whose last attempt (of max_retries) ended with status
ExhaustedBy(k, status) == batches[k].writes = 5 /\ batches[k].last = status

\* C11 as stated: after attempt k < max_retries - 1 of a batch fails with a
\* non-429 status, a timeout or another exception, the sleep before the next
\* attempt is current_delay * 1.5^k, the same for the three kinds of failure.
C11_SameFormula ==
    \A status \in {"other", "timeout", "error"} :
        RetryingAfter(status) =>
            last_sleep.dur = (rate.current_delay * Pow(3, attempt - 1)) \div Pow(2, attempt - 1)

\* C11 amended: after attempt k < max_retries - 1 fails, the sleep is
\* current_delay * 1.5^k for a non-429 status (current_delay read after the
\* rate controller was fed the failure) and for a timeout (current_delay as
\* the attempt found it), and current_delay, whatever k, for any other
\* exception; a batch whose last attempt fails in one of the three ways makes
\* bulk_insert return False without a sleep.
C11_SoftBackoff ==
    /\ RetryingAfter("other") =>
          /\ rate.current_delay = Min(30000, (3 * LastBatch.before.current_delay) \div 2)
          /\ last_sleep.dur = (rate.current_delay * Pow(3, attempt - 1)) \div Pow(2, attempt - 1)
    /\ RetryingAfter("timeout") =>
          /\ rate = LastBatch.before
          /\ last_sleep.dur = (rate.current_delay * Pow(3, attempt - 1)) \div Pow(2, attempt - 1)
    /\ RetryingAfter("error") =>
          /\ rate = LastBatch.before
          /\ last_sleep.dur = rate.current_delay
    /\ \A k \in Dispatched :
          (\E status \in {"other", "timeout", "error"} : ExhaustedBy(k, status)) =>
              /\ k = Len(batches)
              /\ pc \in {"returned", "done"} /\ ~ret
              /\ last_sleep = NoSleep
              /\ result # "success"

\* the sleep after the third attempt (k = 2) of a batch ended in a timeout
C11_Witness ==
    /\ RetryingAfter("timeout") /\ attempt = 3
    /\ last_sleep.dur = (9 * rate.current_delay) \div 4
    /\ last_sleep.dur > rate.current_delay

\* C12: when the first attempt of a batch is answered 429 and the second 200,
\* the batch is acknowledged and bulk_insert goes on to the next batch (or
\* returns True), and the RateState after the batch is the one the batch found
\* with one rate-limit shrink: batch size halved (not below 200), delay
\* doubled (not above 60 s).
C12_RateLimitedThenOk ==
    [][(/\ Len(batches) > 0
        /\ pc = "post" /\ attempt = 1
        /\ LastBatch.writes = 1 /\ LastBatch.last = "429"
        /\ Len(batches') = Len(batches)
        /\ batches'[Len(batches)].last = "200")
       => /\ batches'[Len(batches)].acked /\ batches'[Len(batches)].writes = 2
          /\ pc' = "returned" => ret'
          /\ pc' = "post" => attempt' = 0 /\ i' = i + effective_batch_size
          /\ pc' \in {"returned", "post"}
          /\ rate'.current_batch_size = Max(200, LastBatch.rs0.current_batch_size \div 2)
          /\ rate'.current_delay = Min(60000, 2 * LastBatch.rs0.current_delay)
          /\ rate'.failure_count = 0
          /\ rate'.success_count = 1]_vars

\* batch 2 of a run was answered 429, then 200, and a third batch follows
C12_Witness ==
    /\ Len(batches) >= 3
    /\ batches[2].writes = 2 /\ batches[2].http = 2 /\ batches[2].acked
    /\ batches[2].before.failure_count = 1
    /\ batches[2].before.current_delay = 2 * batches[2].rs0.current_delay
    /\ batches[3].rs0.current_delay = 2 * batches[2].rs0.current_delay
    /\ batches[3].rs0.current_batch_size = batches[2].rs0.current_batch_size \div 2

\* the fetches of the run, in order
Fetches == SelectSeq(log, LAMBDA ev : ev.e = "fetch")

\* the batch was given up: its attempts are used up, or its last attempt
\* ended with a failure that is not a 429
GivenUp(k) == batches[k].concluded /\ ~batches[k].acked

\* C13: in a paginated run, once a batch of some page is given up, the run
\* ends with failure: no later batch is dispatched and no later page fetched.
C13_FailFast ==
    all_data =>
        \A k \in Dispatched :
            GivenUp(k) =>
                /\ k = Len(batches)
                /\ pc \in {"returned", "done"} /\ ~ret
                /\ pc = "done" => result = "failure"
                /\ result # "success"
                /\ Len(Fetches) = batches[k].page
                /\ data_points.offset = (batches[k].page - 1) * page_size

\* page 2 of three is given up after page 1 was sent: the run has failed
C13_Witness ==
    /\ all_data /\ store_total > 2 * page_size
    /\ Len(batches) > 0 /\ GivenUp(Len(batches))
    /\ LastBatch.page = 2
    /\ pc = "done" /\ result = "failure"

\* the row of rank r is among the rows of the fetch ev
InPage(r, ev) ==
    /\ ev.rows > 0
    /\ \/ r = ev.first
       \/ r = ev.last
       \/ ev.offset < r /\ r < ev.offset + ev.rows - 1

\* the rows the partition is checked for: those around the first page boundary
\* and the first and the last row of the store
CheckedRanks ==
    {r \in {0, page_size - 2, page_size - 1, page_size, page_size + 1, store_total - 1} :
        0 <= r /\ r < store_total}

\* C14: over an unchanged store of N rows, a paginated run that succeeds has
\* fetched ceil(N / page_size) non-empty pages and then one empty page, and
\* every row is in exactly one of the pages.
C14_Partition ==
    (all_data /\ ~dry_run /\ pc = "done" /\ result = "success") =>
        /\ Len(Fetches) = CeilDiv(store_total, page_size) + 1
        /\ \A k \in 1..Len(Fetches) : Fetches[k].rows = 0 <=> k = Len(Fetches)
        /\ \A r \in CheckedRanks :
              Cardinality({k \in 1..Len(Fetches) : InPage(r, Fetches[k])}) = 1

\* rows of the fetched list that were sent and acknowledged: the batches are
\* consecutive slices, so the acknowledged ones end where the last one ends
AckedRows ==
    IF \E k \in Dispatched : batches[k].acked
    THEN LET k == CHOOSE j \in Dispatched :
                     batches[j].acked /\ \A m \in Dispatched : batches[m].acked => m <= j
         IN batches[k].start + batches[k].size
    ELSE 0

\* C15: a run over a time window (days_back given) that reports success has
\* sent every row of the window, whatever their number.
C15_WindowComplete ==
    (~all_data /\ ~dry_run /\ pc = "done" /\ result = "success") =>
        AckedRows = in_window

\* C16: the batches of a run, in the order of their first write, are the
\* consecutive slices of the first fetched list, then those of the second,
\* and so on; a batch is dispatched only after the batch before it was
\* acknowledged, so no batch of a page precedes the acknowledgement of every
\* batch of the page before; a run that succeeds has sliced every page to
\* its end.
C16_DispatchOrder ==
    /\ \A k \in Dispatched :
          LET b == batches[k] IN
          /\ b.page <= Len(Fetches)
          /\ b.size > 0
          /\ b.start = Fetches[b.page].offset + b.i
          /\ b.i + b.size <= Fetches[b.page].rows
          /\ k = 1 => b.page = 1 /\ b.i = 0
          /\ k > 1 =>
                LET a == batches[k - 1] IN
                /\ a.acked
                /\ \/ b.page = a.page /\ b.i = a.i + a.size
                   \/ /\ b.page = a.page + 1 /\ b.i = 0
                      /\ a.i + a.size = Fetches[a.page].rows
    /\ (pc = "done" /\ result = "success" /\ Len(batches) > 0) =>
          /\ LastBatch.acked
          /\ LastBatch.i + LastBatch.size = Fetches[LastBatch.page].rows
          /\ \A k \in 1..Len(Fetches) : Fetches[k].rows > 0 => k <= LastBatch.page

\* a run over 60000 rows in slices of 12500 has sent the two slices of page 1
\* and of page 2 and has come to page 3
C16_Witness ==
    /\ Len(batches) = 5
    /\ batches[2].page = 1 /\ batches[2].i > 0
    /\ batches[3].page = 2 /\ batches[3].i = 0
    /\ batches[5].page = 3

\* C17: a run with dry_run, paginated or windowed, makes no network write and
\* counts no row as sent; the rate controller is left as constructed.
C17_DryRunPurity ==
    dry_run =>
        /\ batches = <<>>
        /\ \A k \in 1..Len(log) : log[k].e = "fetch"
        /\ total_synced = 0
        /\ rate = InitRate
        /\ pc \in {"fetch", "done"}
        /\ (pc = "done" /\ data_points.error = "none") => result = "success"

\* a windowed dry run that found rows to send has returned
C17_Witness ==
    /\ dry_run /\ ~all_data
    /\ pc = "done"
    /\ data_points.rows > 0

\* the fetches that returned rows
NonEmptyFetches == SelectSeq(Fetches, LAMBDA ev : ev.rows > 0)

PagePauses == SelectSeq(log, LAMBDA ev : ev.e = "sleep" /\ ev.kind = "page")

\* C19: a paginated run that succeeds over m non-empty pages has paused
\* m - 1 times, between the pages and not after the last one; over 60000 rows
\* the pages have 25000, 25000 and 10000 rows and the run pauses twice.
C19_PausesBetweenPages ==
    (all_data /\ ~dry_run /\ pc = "done" /\ result = "success") =>
        /\ store_total = 60000 =>
              /\ Len(NonEmptyFetches) = 3
              /\ NonEmptyFetches[1].rows = 25000
              /\ NonEmptyFetches[2].rows = 25000
              /\ NonEmptyFetches[3].rows = 10000
        /\ Len(PagePauses) = Max(0, Len(NonEmptyFetches) - 1)

\* the place in the log of the dispatch of batch k
DispatchAt(k) ==
    CHOOSE j \in 1..Len(log) :
        /\ log[j].e = "dispatch"
        /\ Cardinality({m \in 1..j : log[m].e = "dispatch"}) = k

\* C20: between the dispatch of a batch that was acknowledged and the
\* dispatch of the next batch of the run, in the same page or in the next, a
\* sleep of the delay the RateState has after the first batch is taken (read
\* here as: a sleep of at least that delay).
C20_PacedDispatches ==
    \A k \in Dispatched :
        (k > 1 /\ batches[k - 1].acked) =>
            \E m \in DispatchAt(k - 1)..DispatchAt(k) :
                /\ log[m].e = "sleep"
                /\ log[m].dur >= batches[k].rs0.current_delay

(***************************************************************************)
(* SpecStore: the writers of measurements.  bulk_insert_local writes the   *)
(* staging table ecosense.timeseries_data, sync_readings of the service    *)
(* writes sensor.SensorReadings.  A table is a function from the key       *)
(* (series, timestamp) to the values of the rows that carry the key, in    *)
(* the order they were inserted.                                           *)
(***************************************************************************)
Points == [key : Keys, value : Values]

\* the lists of points a write call may carry
WriteBatches == UNION {[1..n -> Points] : n \in 1..MaxPoints}

\* two rows of one INSERT statement carry the same key
HasRepeatedKey(b) ==
    \E m, n \in 1..Len(b) : m < n /\ b[m].key = b[n].key

\* the value the statement carries for key k
ValueFor(b, k) == b[CHOOSE m \in 1..Len(b) : b[m].key = k].value

\* ON CONFLICT (timeseries_id, timestamp) DO UPDATE SET value = EXCLUDED.value
UpsertRow(rows, v) == IF rows = <<>> THEN <<v>> ELSE <<v>> \o Tail(rows)

\* bulk_insert_local as a plain INSERT into a table without the key
bulk_insert_local_plain(tbl, b) ==
    [k \in Keys |->
        IF \E m \in 1..Len(b) : b[m].key = k
        THEN Append(tbl[k], ValueFor(b, k))
        ELSE tbl[k]]

\* bulk_insert_local: one INSERT ... ON CONFLICT DO UPDATE statement for the
\* list; a statement that would update one row twice raises, and the
\* transaction is rolled back
bulk_insert_local(tbl, b) ==
    IF HasRepeatedKey(b) THEN tbl
    ELSE [k \in Keys |->
            IF \E m \in 1..Len(b) : b[m].key = k
            THEN UpsertRow(tbl[k], ValueFor(b, k))
            ELSE tbl[k]]

\* INSERT INTO sensor.SensorReadings ... ON CONFLICT DO NOTHING, one row
InsertReading(rs, p) ==
    [rs EXCEPT ![p.key] = IF readings_unique /\ @ # <<>> THEN @
                          ELSE Append(@, p.value)]

RECURSIVE InsertReadings(_, _)
\* the rows of the statement, in order
InsertReadings(rs, b) ==
    IF b = <<>> THEN rs
    ELSE InsertReadings(InsertReading(rs, Head(b)), Tail(b))

InitStore ==
    /\ rate = InitRate /\ trail = <<>> /\ nfeeds = 0
    /\ Idle /\ IdleService /\ IdleLegacy
    /\ table = EmptyTable /\ readings = EmptyTable
    /\ readings_unique \in BOOLEAN
    /\ written = <<>>

\* one call bulk_insert_local(data_points)
WriteLocal ==
    \E b \in WriteBatches :
        /\ Len(written) < MaxWrites
        /\ table' = bulk_insert_local(table, b)
        /\ written' = Append(written, [writer |-> "local", batch |-> b,
                                       ok |-> ~HasRepeatedKey(b)])
        /\ UNCHANGED <<rate, trail, nfeeds, RunVars, ServiceVars, LegacyVars, readings,
                       readings_unique>>

\* sync_readings: the execute_values call for the points of one sensor
WriteReadings ==
    \E b \in WriteBatches :
        /\ Len(written) < MaxWrites
        /\ readings' = InsertReadings(readings, b)
        /\ written' = Append(written, [writer |-> "service", batch |-> b,
                                       ok |-> TRUE])
        /\ UNCHANGED <<rate, trail, nfeeds, RunVars, ServiceVars, LegacyVars, table,
                       readings_unique>>

NextStore == WriteLocal \/ WriteReadings

SpecStore == InitStore /\ [][NextStore]_vars

(***************************************************************************)
(* Claims about the stores (checked under SpecStore)                       *)
(***************************************************************************)
\* the lists written by bulk_insert_local, in order
LocalBatches ==
    LET calls == SelectSeq(written, LAMBDA c : c.writer = "local")
    IN [j \in 1..Len(calls) |-> calls[j].batch]

RECURSIVE WriteAll(_, _)
\* the table after the lists of seq were written one after the other
WriteAll(tbl, seq) ==
    IF seq = <<>> THEN tbl
    ELSE WriteAll(bulk_insert_local(tbl, Head(seq)), Tail(seq))

RECURSIVE DropResends(_)
\* seq without the lists that repeat the list written just before them
DropResends(seq) ==
    IF Len(seq) <= 1 THEN seq
    ELSE LET front == SubSeq(seq, 1, Len(seq) - 1) IN
         IF seq[Len(seq)] = seq[Len(seq) - 1] THEN DropResends(front)
         ELSE Append(DropResends(front), seq[Len(seq)])

RECURSIVE Once(_)
\* seq with every list kept at its first place only
Once(seq) ==
    IF seq = <<>> THEN seq
    ELSE LET front == SubSeq(seq, 1, Len(seq) - 1) IN
         IF \E m \in 1..Len(front) : front[m] = seq[Len(seq)] THEN Once(front)
         ELSE Append(Once(front), seq[Len(seq)])

\* no two points of the lists carry one key with two values
SameData(seq) ==
    \A a, b \in 1..Len(seq) : \A m \in 1..Len(seq[a]), n \in 1..Len(seq[b]) :
        seq[a][m].key = seq[b][n].key => seq[a][m].value = seq[b][n].value

StoreOf(w) == IF w = "local" THEN table ELSE readings

\* the calls of writer w that carry a point for key k
CallsFor(w, k) ==
    SelectSeq(written, LAMBDA c : c.writer = w /\ \E m \in 1..Len(c.batch) : c.batch[m].key = k)

\* the value of the last point for key k in the list b
LastValueIn(b, k) ==
    b[CHOOSE m \in 1..Len(b) :
          b[m].key = k /\ \A n \in 1..Len(b) : b[n].key = k => n <= m].value

\* C22: for both writers, after points were written for a key, the store
\* holds exactly one row for the key, with the value written last.
C22_LastWriteWins ==
    \A w \in {"local", "service"}, k \in Keys :
        LET calls == CallsFor(w, k) IN
        calls # <<>> =>
            StoreOf(w)[k] = <<LastValueIn(calls[Len(calls)].batch, k)>>

(***************************************************************************)
(* The paginated run beside a writer of the staging table                  *)
(***************************************************************************)
\* another process (stage 1, bulk_insert_local) commits a row with a newer
\* timestamp between two page queries of the run: every row moves one
\* position down in "ORDER BY timestamp DESC"
ConcurrentInsert ==
    /\ all_data
    /\ pc = "fetch" /\ offset > 0
    /\ inserted < MaxInserts
    /\ inserted' = inserted + 1
    /\ UNCHANGED <<rate, trail, nfeeds, StoreVars, ServiceVars, LegacyVars, InputVars,
                   PageVars,
                   data_points, log, pc, total_points, effective_batch_size, i,
                   attempt, ret, result, batches, last_sleep, faults>>

NextWriter == Next \/ ConcurrentInsert
SpecWriter == Init /\ [][NextWriter]_vars

\* the fetch returned the row of rank r
Fetched(r, ev) == ev.rows > 0 /\ ev.first <= r /\ r <= ev.last

\* C26: when another process stores rows between two page fetches of a
\* paginated run (over rows of distinct timestamps), every row present at the
\* start of the run is fetched, and so dispatched, in exactly one page.
C26_StableEnumeration ==
    (all_data /\ ~dry_run /\ ~tied /\ inserted > 0
     /\ pc = "done" /\ result = "success") =>
        \A r \in CheckedRanks :
            Cardinality({k \in 1..Len(Fetches) : Fetched(r, Fetches[k])}) = 1

(***************************************************************************)
(* The service: runs of sync_readings on the module-level sync_service,    *)
(* started by the scheduler thread and by the background tasks, over its   *)
(* one AquariusClient                                                      *)
(***************************************************************************)
RunOthers == <<rate, trail, nfeeds, RunVars, StoreVars, LegacyVars>>

InitService ==
    /\ rate = InitRate /\ trail = <<>> /\ nfeeds = 0
    /\ Idle /\ IdleStore /\ IdleService /\ IdleLegacy

\* AquariusClient.connect answered 200: the server opens a session, its token
\* becomes self.token and the X-Authentication-Token header of the one
\* requests.Session
Connect(r) ==
    /\ runs[r].pc \in {"idle", "done"}
    /\ session.issued < MaxSessions
    /\ LET t == session.issued + 1 IN
          /\ session' = [token |-> t, valid |-> session.valid \cup {t}, issued |-> t]
          /\ runs' = [runs EXCEPT ![r] = [pc |-> "working", token |-> t,
                                          requests |-> <<>>]]
    /\ UNCHANGED RunOthers

\* AquariusClient.connect answered otherwise or raised: sync_readings returns
ConnectRefused(r) ==
    /\ runs[r].pc = "idle"
    /\ runs' = [runs EXCEPT ![r].pc = "done"]
    /\ UNCHANGED <<session, RunOthers>>

\* AquariusClient.get_data for one sensor: the request carries the header of
\* the shared requests.Session; the server answers 200 to the token of an
\* open session, and any other answer makes get_data return []
GetData(r) ==
    /\ runs[r].pc = "working"
    /\ Len(runs[r].requests) < MaxRequests
    /\ runs' = [runs EXCEPT ![r].requests =
                    Append(@, [token |-> session.token,
                               ok |-> session.token \in session.valid])]
    /\ UNCHANGED <<session, RunOthers>>

\* the finally block of sync_readings: AquariusClient.disconnect, with
\* self.token set, sends DELETE /session with the header of the shared
\* requests.Session; self.token and the header stay as they are
Disconnect(r) ==
    /\ runs[r].pc = "working"
    /\ session' = [session EXCEPT !.valid = @ \ {session.token}]
    /\ runs' = [runs EXCEPT ![r].pc = "done"]
    /\ UNCHANGED RunOthers

NextService ==
    \E r \in Runs : Connect(r) \/ ConnectRefused(r) \/ GetData(r) \/ Disconnect(r)

SpecService == InitService /\ [][NextService]_vars

\* C28: when two runs of the service overlap, the disconnect that ends one
\* of them does not close the session whose token the requests of the other,
\* still working run carry: a step in which one run disconnects leaves the
\* header token of a run that is still working an open session.
C28_DisconnectKeepsSession ==
    [][\A r, q \in Runs :
          (r # q /\ runs[q].pc = "working" /\ runs'[q].pc = "working"
           /\ runs[r].pc = "working" /\ runs'[r].pc = "done"
           /\ session.token \in session.valid)
          => session'.token \in session'.valid]_vars

(***************************************************************************)
(* The run and the interrupt signal                                        *)
(***************************************************************************)
\* the process receives SIGINT while the run is under way: KeyboardInterrupt
\* is raised where the run stands (in a query, a write or a sleep); no
\* handler catches it ("except Exception" and "except
\* requests.exceptions.Timeout" do not), the run returns no value and main
\* does not reach sys.exit(0 if success else 1)
Interrupt ==
    /\ pc \in {"fetch", "post", "returned"}
    /\ data_points' = [data_points EXCEPT !.error = "interrupt"]
    /\ pc' = "done" /\ result' = "interrupted"
    /\ last_sleep' = NoSleep
    /\ UNCHANGED <<rate, RateVarsUnused, InputVars, PageVars, total_points,
                   effective_batch_size, i, attempt, ret, batches, faults, log>>

NextInterrupt == Next \/ Interrupt
SpecInterrupt == Init /\ [][NextInterrupt]_vars

\* C29: a run that was told to stop, between pages or between the attempts
\* of a batch, dispatches nothing more and ends with a result that tells the
\* work done: success or failure, with the rows of the pages sent counted.
C29_Cancellation ==
    data_points.error = "interrupt" =>
        /\ pc = "done"
        /\ result \in {"success", "failure"}
        /\ all_data => total_synced = Min(store_total, offset)

(***************************************************************************)
(* Claims about the run (checked under Spec), continued                    *)
(***************************************************************************)
\* C23: when a fetch from the staging database fails in a run without
\* dry_run, paginated or windowed, the run returns False; the rows of the
\* failing fetch are not counted as sent and no batch is dispatched for them.
C23_SourceFailureAborts ==
    (data_points.error = "source" /\ ~dry_run) =>
        /\ pc = "done"
        /\ result = "failure"
        /\ total_synced = Min(store_total, offset)
        /\ \A k \in Dispatched : batches[k].page < page_num

\* the rows the run is to send: the table in a paginated run, the rows of the
\* window otherwise
DatasetRows == IF all_data THEN store_total ELSE in_window

\* the last slice of the page of batch k was acknowledged: the page was sent
\* without a batch using up its attempts
PageSentBy(k) ==
    /\ batches[k].acked
    /\ batches[k].page <= Len(Fetches)
    /\ batches[k].start + batches[k].size = Fetches[batches[k].page].rows

\* C24: a run without dry_run over a non-empty dataset returns True only if
\* at least one page was sent without using up the attempts of a batch; a run
\* over an empty dataset returns True with no row counted as sent and no batch
\* dispatched.
C24_ResultSemantics ==
    pc = "done" =>
        /\ (~dry_run /\ DatasetRows > 0 /\ result = "success") =>
              \E k \in Dispatched : PageSentBy(k)
        /\ (DatasetRows = 0 /\ data_points.error = "none") =>
              /\ result = "success"
              /\ total_synced = 0
              /\ batches = <<>>

\* a paginated run over 3500 rows in slices of base_batch_size has returned;
\* every write was answered with 200 and no connection or query failed
Scenario3500 ==
    /\ all_data /\ ~dry_run
    /\ store_total = 3500
    /\ EffectiveBatchSize(batch_size, InitRate) = base_batch_size
    /\ pc = "done"
    /\ faults = 0 /\ data_points.error = "none"

\* C25: 3500 rows sent in slices of base_batch_size = 1000 with every write
\* answered 200 make 4 batches of 1000, 1000, 1000 and 500 rows; the batch
\* size of the rate controller changes once, after the third success, from
\* 1000 to 1100, and is 1100 when the call returns.
C25_Scenario3500 ==
    Scenario3500 =>
        /\ result = "success"
        /\ Len(batches) = 4
        /\ \A k \in 1..4 : batches[k].size = IF k < 4 THEN 1000 ELSE 500
        /\ \A k \in 1..4 : batches[k].writes = 1 /\ batches[k].acked
        /\ \A k \in 1..3 : batches[k].rs0.current_batch_size = 1000
        /\ batches[4].rs0.current_batch_size = 1100
        /\ rate.current_batch_size = 1100

\* the scenario has run with the batch size left to the rate controller
C25_Witness ==
    /\ Scenario3500
    /\ batch_size = 0
    /\ Len(batches) = 4

\* C27: the order of the page query is total: over an unchanged table in
\* which rows of different series share a timestamp, the pages of a run that
\* succeeds follow one another without overlap or gap, from the first row
\* to the last.
C27_TotalPageOrder ==
    (all_data /\ ~dry_run /\ tied /\ pc = "done" /\ result = "success") =>
        /\ NonEmptyFetches # <<>>
        /\ NonEmptyFetches[1].first = 0
        /\ NonEmptyFetches[Len(NonEmptyFetches)].last = store_total - 1
        /\ \A k \in 1..(Len(NonEmptyFetches) - 1) :
              NonEmptyFetches[k + 1].first = NonEmptyFetches[k].last + 1

\* C30: a run started with a batch size that is not positive ends with a
\* configuration error before a page is fetched or a batch dispatched, and
\* does not return True.
C30_InvalidConfigurationFatal ==
    batch_size <= 0 =>
        /\ log = <<>>
        /\ batches = <<>>
        /\ result # "success"

C32_BoundedBackoff ==
    (pc = "post" /\ attempt > 0 /\ last_sleep.kind \notin {"none", "pacing"}) =>
        last_sleep.dur <= max_delay

\* C33: in a paginated run the RateState at the first write of page k + 1 is
\* the RateState the last write of page k left: the fetch, the pause between
\* the pages and the page boundary leave all four fields as they are and do
\* not put the constructor's values back.
C33_RatePersists ==
    all_data =>
        \A k \in 1..(Len(batches) - 1) :
            batches[k + 1].page > batches[k].page =>
                /\ batches[k].last = "200"
                /\ batches[k + 1].rs0 = _adaptive_delay(batches[k].before, TRUE, FALSE)

\* the second page was begun with a RateState that a rate limit and a
\* success on the first page had changed
C33_Witness ==
    /\ all_data
    /\ Len(batches) >= 2
    /\ batches[1].page = 1 /\ batches[2].page = 2
    /\ batches[1].writes = 2
    /\ batches[2].rs0.current_delay = 2 * base_delay
    /\ batches[2].rs0.success_count = 1

\* C35: when the last attempt allowed (attempt max_retries - 1) of a batch
\* fails, with a 429, another status, a timeout or another exception,
\* bulk_insert returns False without a sleep after that attempt.
C35_NoSleepAfterLastAttempt ==
    (pc = "returned" /\ ~ret /\ batches # <<>> /\ LastBatch.writes = max_retries) =>
        last_sleep = NoSleep

RECURSIVE AckedSize(_, _)
\* rows in the acknowledged ones of the first n batches, those of page p or,
\* with p = 0, those of any page
AckedSize(n, p) ==
    IF n = 0 THEN 0
    ELSE LET rest == AckedSize(n - 1, p)
             b == batches[n]
         IN IF b.acked /\ (p = 0 \/ b.page = p) THEN rest + b.size ELSE rest

\* C36: for a non-empty list and any integer batch_size (zero and negative
\* ones too), bulk_insert returns True only if every row of the list was in
\* a batch the endpoint answered with 200; so total_synced never exceeds the
\* number of rows in acknowledged batches.
C36_SuccessMeansAcked ==
    /\ (pc = "returned" /\ ret) => AckedSize(Len(batches), page_num) = total_points
    /\ total_synced <= AckedSize(Len(batches), 0)

(***************************************************************************)
(* The paginated run as a process that keeps running: the one thread of    *)
(* the script takes its next step, every query returns or raises and every *)
(* write is answered or times out (timeout=120)                            *)
(***************************************************************************)
InitPaginated == Init /\ all_data

NextPaginated ==
    \/ ConnectionFails
    \/ DryRunReturn
    \/ FetchFails
    \/ FetchEmpty
    \/ FetchPage
    \/ Post200
    \/ Post429
    \/ PostOtherStatus
    \/ PostTimeout
    \/ PostException
    \/ PageSent
    \/ PageFailed

SpecPaginated ==
    InitPaginated /\ [][NextPaginated]_vars /\ WF_vars(NextPaginated)

\* at most ceil(N / page_size) + 1 page fetches and at most max_retries
\* writes for a batch
BoundedWork ==
    /\ Len(Fetches) <= CeilDiv(store_total, page_size) + 1
    /\ \A k \in Dispatched : batches[k].writes <= max_retries

\* the run returned True after the first empty page
EndsAfterEmptyPage ==
    /\ result = "success"
    /\ Fetches # <<>>
    /\ \A k \in 1..Len(Fetches) : Fetches[k].rows = 0 <=> k = Len(Fetches)
    /\ \A k \in Dispatched : ~GivenUp(k)

\* the run returned False at the first batch whose attempts were used up
EndsAtExhaustedBatch ==
    /\ result = "failure"
    /\ batches # <<>>
    /\ \A k \in Dispatched : GivenUp(k) <=> k = Len(batches)
    /\ LastBatch.writes = max_retries

\* C39 as stated, for the run that has ended: a paginated run makes at most
\* ceil(N / page_size) + 1 page fetches and at most max_retries writes per
\* batch, and ends either with success after the first empty page or with
\* failure at the first batch that uses up its attempts.
C39_TwoEndings ==
    /\ BoundedWork
    /\ pc = "done" => (EndsAfterEmptyPage \/ EndsAtExhaustedBatch)

\* C39 amended: a paginated run over N rows terminates, whatever the
\* endpoint answers; it makes at most ceil(N / page_size) + 1 page fetches
\* and at most max_retries writes per batch, and ends with success after
\* the first empty page or, with dry_run, after the count; or with failure
\* at the first batch that uses up its attempts or when the connection test
\* or a query of the staging table fails.
C39_Termination ==
    /\ <>(pc = "done")
    /\ [](/\ BoundedWork
          /\ pc = "done" =>
                \/ EndsAfterEmptyPage
                \/ dry_run /\ result = "success" /\ Fetches = <<>>
                \/ EndsAtExhaustedBatch
                \/ data_points.error # "none" /\ result = "failure")

\* a run over three pages has ended at a batch of the second page whose
\* five writes all failed
C39_Witness ==
    /\ pc = "done" /\ result = "failure"
    /\ store_total > 2 * page_size
    /\ batches # <<>>
    /\ LastBatch.page = 2 /\ LastBatch.writes = max_retries /\ ~LastBatch.acked

(***************************************************************************)
(* The legacy syncer (old_scripts/main.py): one call of                    *)
(* EcosenseDataSyncer.sync_sensor_data(sensor, days_back), as full_sync    *)
(* makes it for every sensor.  Times are hours before now; None is -1.     *)
(***************************************************************************)
\* days_back arguments: the nightly job's 7, the default 1000, --backfill n
DaysBackArgs == {1, 7, 30, 1000}
\* last-sync timestamps the remote may report
LastSyncHours == {2, 48}
None == -1

\* "datetime.now() - timedelta(days=7)", the value returned when the remote
\* reports no timestamp, answers another status, or the retries are used up
Fallback == 24 * fallback_days

\* sync_sensor_data: start_time from the looked-up last_sync; "not last_sync"
\* is true of None only, a datetime is never false
StartTime(last_sync, days_back) ==
    IF last_sync = None
    THEN 24 * Min(days_back, initial_days)
    ELSE last_sync + overlap_hours

InitLegacy ==
    /\ rate = InitRate /\ trail = <<>> /\ nfeeds = 0
    /\ Idle /\ IdleStore /\ IdleService
    /\ \E d \in DaysBackArgs :
          legacy = [pc |-> "lookup", days_back |-> d, answers |-> <<>>,
                    reported |-> FALSE, cause |-> "none", last_sync |-> None,
                    start |-> 0]

LegacyOthers == <<rate, trail, nfeeds, RunVars, StoreVars, ServiceVars>>

\* get_last_sync_time_remote returns v, for the cause given
Returns(v, reported, cause) ==
    legacy' = [legacy EXCEPT !.pc = "window", !.last_sync = v, !.reported = reported,
                             !.cause = cause]

\* the attempt is answered a (429 or an exception): wait and try again, or,
\* after the last attempt, leave the loop and return the fallback
TryAgain(a) ==
    IF Len(legacy.answers) + 1 < lookup_max_retries
    THEN legacy' = [legacy EXCEPT !.answers = Append(@, a)]
    ELSE legacy' = [legacy EXCEPT !.answers = Append(@, a), !.pc = "window",
                                  !.last_sync = Fallback, !.cause = "retries"]

\* status 200 with success and a last_sync
LookupReported ==
    /\ legacy.pc = "lookup"
    /\ \E t \in LastSyncHours : Returns(t, TRUE, "reported")
    /\ UNCHANGED LegacyOthers

\* status 200 without success or with last_sync null
LookupNotReported ==
    /\ legacy.pc = "lookup"
    /\ Returns(Fallback, FALSE, "no timestamp")
    /\ UNCHANGED LegacyOthers

\* status 429
LookupRateLimited ==
    /\ legacy.pc = "lookup"
    /\ TryAgain("429")
    /\ UNCHANGED LegacyOthers

\* any other status
LookupOtherStatus ==
    /\ legacy.pc = "lookup"
    /\ Returns(Fallback, FALSE, "status")
    /\ UNCHANGED LegacyOthers

\* the request raises
LookupException ==
    /\ legacy.pc = "lookup"
    /\ TryAgain("exception")
    /\ UNCHANGED LegacyOthers

\* sync_sensor_data after the lookup: the window asked of Aquarius is
\* start_time .. now
RequestWindow ==
    /\ legacy.pc = "window"
    /\ legacy' = [legacy EXCEPT !.pc = "done",
                                !.start = StartTime(legacy.last_sync, legacy.days_back)]
    /\ UNCHANGED LegacyOthers

NextLegacy ==
    \/ LookupReported
    \/ LookupNotReported
    \/ LookupRateLimited
    \/ LookupOtherStatus
    \/ LookupException
    \/ RequestWindow

SpecLegacy == InitLegacy /\ [][NextLegacy]_vars

\* C40: for a sensor whose last sync the remote does not report (no
\* timestamp, a failing lookup, or rate limits until the retries are used
\* up), the window sync_sensor_data(sensor, days_back = D) asks for starts
\* min(D, 7) days back: it depends on D.
C40_HonoursDaysBack ==
    (legacy.pc = "done" /\ ~legacy.reported) =>
        legacy.start = 24 * Min(legacy.days_back, 7)

(***************************************************************************)
(* Claims about the rate controller (checked under SpecRate), continued    *)
(***************************************************************************)
\* C34: a failure outcome, rate-limited or not, fed to _adaptive_delay in any
\* reachable RateState leaves a delay at least as long as the one before.
C34_FailureNeverRelaxes ==
    (nfeeds > 0 /\ (LastFed.was_rate_limited \/ ~LastFed.success)) =>
        rate.current_delay >= LastFed.before.current_delay

\* C37: _adaptive_delay changes current_batch_size only on a rate-limited
\* outcome, and then never upwards, or on the success that brings the success
\* counter to 3, and then never downwards; a success below 3 leaves the batch
\* size and the delay as they were, another failure leaves the batch size.
C37_BatchSizeFrame ==
    nfeeds > 0 =>
        LET b == LastFed.before
            plain == LastFed.success /\ ~LastFed.was_rate_limited
        IN /\ rate.current_batch_size # b.current_batch_size =>
                 \/ LastFed.was_rate_limited
                       /\ rate.current_batch_size < b.current_batch_size
                 \/ plain /\ b.success_count + 1 = 3
                       /\ rate.current_batch_size > b.current_batch_size
           /\ (plain /\ b.success_count + 1 < 3) =>
                 /\ rate.current_batch_size = b.current_batch_size
                 /\ rate.current_delay = b.current_delay
           /\ (~LastFed.success /\ ~LastFed.was_rate_limited) =>
                 rate.current_batch_size = b.current_batch_size

\* a failure without rate limit was fed to a state with room to shrink, and
\* the delay grew while the batch size stayed
C37_Witness ==
    /\ nfeeds > 0
    /\ ~LastFed.success /\ ~LastFed.was_rate_limited
    /\ LastFed.before.current_batch_size > 2 * min_batch
    /\ rate.current_delay > LastFed.before.current_delay
    /\ rate.current_batch_size = LastFed.before.current_batch_size

\* C38: after every call of _adaptive_delay the success counter is 0, 1 or 2
\* and at most one of the success counter and the failure counter is not 0.
C38_CounterInvariant ==
    nfeeds > 0 =>
        /\ rate.success_count \in {0, 1, 2}
        /\ rate.success_count = 0 \/ rate.failure_count = 0

\* a success was fed to a state that had counted failures: it zeroed the
\* failure counter and the success counter stands at 1
C38_Witness ==
    /\ nfeeds > 0
    /\ LastFed.success /\ ~LastFed.was_rate_limited
    /\ LastFed.before.failure_count >= 2
    /\ rate.success_count = 1 /\ rate.failure_count = 0

====
